---- MODULE Spec2Model ----
(***************************************************************************)
(* Model of jcvi's hli/str.py: the STRLine record (parse, serialize,       *)
(* is_valid, calc_entropy, iter_exact_str) and the filtering loop of       *)
(* lobstrindex.  The program is Python 2 (print >> f, urllib2, iteritems). *)
(*                                                                         *)
(* Text is a sequence of one-character strings.  A Python number is a      *)
(* record [k, ip, fr]: k = "int" with value ip, or k = "float" with the    *)
(* non-negative decimal value ip.fr (fr a sequence of digits 0..9 without  *)
(* trailing zeros).                                                        *)
(***************************************************************************)
EXTENDS Integers, Sequences, FiniteSets, TLC

\* ------------------------------------------------------------------ bounds
\* Largest number of lines of the TRF bed file.
MaxRows == 2
\* Largest number of fractional digits of a float literal of an input line.
MaxFracDigits == 13

\* ------------------------------------------------------- program constants
\* Defaults of STRLine.is_valid.
maxperiod == 6
maxlength == 150
minscore == 30
\* Significant digits kept by Python 2's str() of a float ("%.12g").
StrPrecision == 12

\* -------------------------------------------------------------------- text
DigitChars == <<"0", "1", "2", "3", "4", "5", "6", "7", "8", "9">>

IsDigit(c) == \E d \in 1..10 : DigitChars[d] = c

DigitVal(c) == (CHOOSE d \in 1..10 : DigitChars[d] = c) - 1

\* Characters str.split() treats as separators.
IsSpace(c) == c \in {" ", "\t", "\n"}

\* m repeated k times (Python's m * k).
Rep(m, k) == [i \in 1..(k * Len(m)) |-> m[((i - 1) % Len(m)) + 1]]

\* Number of occurrences of the character c in s (str.count of one character).
Count(s, c) == Cardinality({i \in 1..Len(s) : s[i] = c})

\* Python's clamping of one slice index to 0..n.
SliceIndex(i, n) ==
    IF i < 0 THEN (IF i + n < 0 THEN 0 ELSE i + n)
    ELSE (IF i > n THEN n ELSE i)

\* Python's s[i:j]: indices outside the string are clamped, never an error.
PySlice(s, i, j) ==
    LET lo == SliceIndex(i, Len(s))
        hi == SliceIndex(j, Len(s))
    IN  IF lo >= hi THEN <<>> ELSE SubSeq(s, lo + 1, hi)

\* sep.join(parts)
RECURSIVE Join(_, _)
Join(parts, sep) ==
    IF Len(parts) = 0 THEN <<>>
    ELSE IF Len(parts) = 1 THEN parts[1]
    ELSE parts[1] \o sep \o Join(Tail(parts), sep)

\* Smallest element of a non-empty set of integers.
Least(S) == CHOOSE x \in S : \A y \in S : x <= y

\* First index of line at or after i that holds a separator, Len(line) + 1
\* when there is none.
RECURSIVE TokenEnd(_, _)
TokenEnd(line, i) ==
    IF i > Len(line) THEN i
    ELSE IF IsSpace(line[i]) THEN i
    ELSE TokenEnd(line, i + 1)

RECURSIVE SplitFrom(_, _)
SplitFrom(line, i) ==
    IF i > Len(line) THEN <<>>
    ELSE IF IsSpace(line[i]) THEN SplitFrom(line, i + 1)
    ELSE <<SubSeq(line, i, TokenEnd(line, i) - 1)>>
         \o SplitFrom(line, TokenEnd(line, i))

\* line.split(): the maximal runs of non-space characters, in order.
Split(line) == SplitFrom(line, 1)

\* ----------------------------------------------------------------- numbers
PyInt(n) == [k |-> "int", ip |-> n, fr |-> <<>>]

RECURSIVE StripZeros(_)
StripZeros(ds) ==
    IF ds # <<>> /\ ds[Len(ds)] = 0 THEN StripZeros(SubSeq(ds, 1, Len(ds) - 1))
    ELSE ds

PyFloat(n, ds) == [k |-> "float", ip |-> n, fr |-> StripZeros(ds)]

\* Python's ==/<=/>= on numbers compare values: 10 == 10.0.
NumEqInt(v, n) == v.ip = n /\ v.fr = <<>>

\* Value of a sequence of digit characters.
RECURSIVE DigitsVal(_)
DigitsVal(ds) ==
    IF ds = <<>> THEN 0
    ELSE 10 * DigitsVal(SubSeq(ds, 1, Len(ds) - 1)) + DigitVal(ds[Len(ds)])

AllDigits(tok) == \A i \in 1..Len(tok) : IsDigit(tok[i])

HasSign(tok) == tok # <<>> /\ tok[1] \in {"+", "-"}

Unsigned(tok) == IF HasSign(tok) THEN Tail(tok) ELSE tok

\* int(tok) succeeds: an optional sign and at least one digit.
IsIntLiteral(tok) == Unsigned(tok) # <<>> /\ AllDigits(Unsigned(tok))

IntVal(tok) ==
    IF tok[1] = "-" THEN 0 - DigitsVal(Unsigned(tok)) ELSE DigitsVal(Unsigned(tok))

\* Position of the decimal point of tok, 0 when there is none.
PointAt(tok) ==
    IF \E i \in 1..Len(tok) : tok[i] = "."
    THEN CHOOSE i \in 1..Len(tok) : tok[i] = "." /\ \A j \in 1..(i - 1) : tok[j] # "."
    ELSE 0

\* float(tok) succeeds, for tok over digits, "." and letters: digits with at
\* most one point and at least one digit (unsigned decimal literals).
IsFloatLiteral(tok) ==
    LET p == PointAt(tok)
    IN  IF p = 0 THEN tok # <<>> /\ AllDigits(tok)
        ELSE /\ Len(tok) > 1
             /\ AllDigits(SubSeq(tok, 1, p - 1))
             /\ AllDigits(SubSeq(tok, p + 1, Len(tok)))

FloatVal(tok) ==
    LET p == PointAt(tok)
    IN  IF p = 0 THEN PyFloat(DigitsVal(tok), <<>>)
        ELSE PyFloat(DigitsVal(SubSeq(tok, 1, p - 1)),
                     [i \in 1..(Len(tok) - p) |-> DigitVal(tok[p + i])])

\* str(n) of an int.
RECURSIVE NatStr(_)
NatStr(n) ==
    IF n < 10 THEN <<DigitChars[n + 1]>>
    ELSE Append(NatStr(n \div 10), DigitChars[(n % 10) + 1])

IntStr(n) == IF n < 0 THEN <<"-">> \o NatStr(0 - n) ELSE NatStr(n)

DigitsStr(ds) == [i \in 1..Len(ds) |-> DigitChars[ds[i] + 1]]

\* ds + 1 in the last place, as <<carry, digits>>.
RECURSIVE IncDigits(_)
IncDigits(ds) ==
    IF ds = <<>> THEN <<1, <<>>>>
    ELSE IF ds[Len(ds)] < 9
         THEN <<0, [ds EXCEPT ![Len(ds)] = @ + 1]>>
         ELSE LET r == IncDigits(SubSeq(ds, 1, Len(ds) - 1))
              IN  <<r[1], Append(r[2], 0)>>

\* The decimal ip.fr rounded to `keep` fractional digits, as <<ip, digits>>
\* with exactly min(keep, Len(fr)) digits (round half up on the decimal digits).
RoundFrac(ip, fr, keep) ==
    IF Len(fr) <= keep THEN <<ip, fr>>
    ELSE LET head == SubSeq(fr, 1, keep)
         IN  IF fr[keep + 1] < 5 THEN <<ip, head>>
             ELSE LET r == IncDigits(head) IN <<ip + r[1], r[2]>>

\* Number of leading zeros of a digit sequence.
RECURSIVE LeadingZeros(_)
LeadingZeros(ds) ==
    IF ds # <<>> /\ ds[1] = 0 THEN 1 + LeadingZeros(Tail(ds)) ELSE 0

\* Python 2's str(x) of a float x with 1e-4 <= x < 1e12 or x = 0: "%.12g"
\* (StrPrecision significant digits, trailing zeros dropped), then ".0" when
\* the text has no point.
FloatStr(v) ==
    LET keep == IF v.ip > 0 THEN StrPrecision - Len(NatStr(v.ip))
                ELSE StrPrecision + LeadingZeros(v.fr)
        r    == RoundFrac(v.ip, v.fr, keep)
        fr   == StripZeros(r[2])
    IN  NatStr(r[1]) \o <<".">> \o (IF fr = <<>> THEN <<"0">> ELSE DigitsStr(fr))

\* str(x) of a number.
NumStr(v) == IF v.k = "int" THEN IntStr(v.ip) ELSE FloatStr(v)

\* "{0:.2f}".format(x): two fractional digits, rounded.
Fmt2f(v) ==
    LET r == RoundFrac(v.ip, v.fr, 2)
    IN  NatStr(r[1]) \o <<".">>
        \o DigitsStr([i \in 1..2 |-> IF i <= Len(r[2]) THEN r[2][i] ELSE 0])

\* ----------------------------------------------------------------- STRLine
Tab == <<"\t">>

IntFields == {2, 3, 4, 6, 7, 8, 9, 10, 11, 12, 13}

FloatFields == {5, 14}

\* The conversion __init__ applies to args[i - 1] succeeds.
FieldOK(i, tok) ==
    IF i \in IntFields THEN IsIntLiteral(tok)
    ELSE IF i \in FloatFields THEN IsFloatLiteral(tok)
    ELSE TRUE

\* The exception STRLine(line) raises, "" when it raises none: the fields are
\* converted in order, so the first field that is missing (IndexError) or
\* does not convert (ValueError) decides.  Tokens after the 15th are ignored.
ParseError(line) ==
    LET args == Split(line)
        bad  == {i \in 1..15 : i > Len(args) \/ ~FieldOK(i, args[i])}
    IN  IF bad = {} THEN ""
        ELSE LET i == CHOOSE j \in bad : \A h \in bad : j <= h
             IN  IF i > Len(args) THEN "IndexError" ELSE "ValueError"

\* STRLine(line), for a line that parses.
Parse(line) ==
    LET args == Split(line)
    IN  [seqid |-> args[1],
         start |-> IntVal(args[2]),
         end |-> IntVal(args[3]),
         period |-> IntVal(args[4]),
         copynum |-> FloatVal(args[5]),
         consensusSize |-> IntVal(args[6]),
         pctmatch |-> IntVal(args[7]),
         pctindel |-> IntVal(args[8]),
         score |-> IntVal(args[9]),
         A |-> IntVal(args[10]),
         C |-> IntVal(args[11]),
         G |-> IntVal(args[12]),
         T |-> IntVal(args[13]),
         entropy |-> FloatVal(args[14]),
         motif |-> args[15]]

\* The 15 texts __str__ joins, in order.
StrFields(r) ==
    <<r.seqid, IntStr(r.start), IntStr(r.end), IntStr(r.period),
      NumStr(r.copynum), IntStr(r.consensusSize), IntStr(r.pctmatch),
      IntStr(r.pctindel), IntStr(r.score), IntStr(r.A), IntStr(r.C),
      IntStr(r.G), IntStr(r.T), Fmt2f(r.entropy), r.motif>>

\* STRLine.__str__
STRStr(r) == Join(StrFields(r), Tab)

\* is_valid with the length bound exclusive.
is_valid_strict(r, maxp, maxl, mins) ==
    /\ 2 <= r.period
    /\ r.period <= maxp
    /\ (r.end - r.start + 1) < maxl
    /\ r.score >= mins

\* STRLine.is_valid
is_valid(r, maxp, maxl, mins) ==
    /\ 2 <= r.period
    /\ r.period <= maxp
    /\ (r.end - r.start + 1) <= maxl
    /\ r.score >= mins

\* ns.is_valid() as lobstrindex calls it: the default thresholds.
IsValidDefault(r) == is_valid(r, maxperiod, maxlength, minscore)

RECURSIVE GCD(_, _)
GCD(a, b) == IF b = 0 THEN a ELSE GCD(b, a % b)

\* log(n, 2) in units of 1e-5, for the denominators 1..6 that the base
\* fractions of a run of a motif of at most 6 bases reduce to.
Log2e5(n) == <<0, 100000, 158496, 200000, 232193, 258496>>[n]

\* calc_entropy raises ZeroDivisionError (x * 1.0 / total with total = 0).
EntropyRaises(r) == r.A + r.C + r.G + r.T = 0

\* One term -x/total * log(x/total, 2) of the sum, times total/g, in 1e-5.
EntropyTerm(x, g, total) ==
    IF x = 0 THEN 0 ELSE (x \div g) * (Log2e5(total \div g) - Log2e5(x \div g))

\* STRLine.calc_entropy, for total # 0: the Shannon entropy of the four base
\* fractions, to five decimals.
calc_entropy(r) ==
    LET total == r.A + r.C + r.G + r.T
        g     == GCD(GCD(r.A, r.C), GCD(r.G, r.T))
        e5    == (EntropyTerm(r.A, g, total) + EntropyTerm(r.C, g, total)
                  + EntropyTerm(r.G, g, total) + EntropyTerm(r.T, g, total))
                 \div (total \div g)
        d     == [i \in 1..5 |->
                    ((e5 % 100000) \div (CASE i = 1 -> 10000 [] i = 2 -> 1000
                                           [] i = 3 -> 100 [] i = 4 -> 10
                                           [] OTHER -> 1)) % 10]
    IN  PyFloat(e5 \div 100000, d)

\* ------------------------------------------------- re.finditer(pat, s)
\* pat = "((motif){2,})".  For a motif of letters the pattern is the literal
\* motif repeated two or more times, greedily.  Offsets are 0-based.
StartsWithAt(w, m, i) ==
    /\ i + Len(m) <= Len(w)
    /\ \A j \in 1..Len(m) : w[i + j] = m[j]

\* Number of consecutive copies of m in w from offset i: the greedy {2,}
\* stops at the first place where the next copy does not follow.
CopiesAt(w, m, i) ==
    LET most == (Len(w) - i) \div Len(m)
        gaps == {k \in 0..most : ~StartsWithAt(w, m, i + k * Len(m))}
    IN  Least(gaps)

\* Offset of the leftmost match starting at or after i, -1 when there is none.
FindFrom(w, m, i) ==
    LET hits == {b \in i..(Len(w) - 2 * Len(m)) :
                    StartsWithAt(w, m, b) /\ StartsWithAt(w, m, b + Len(m))}
    IN  IF hits = {} THEN -1 ELSE Least(hits)

\* A match of exactly two copies: "{2}" written for "{2,}".
MatchEnd_two(w, m, b) == b + 2 * Len(m)

\* m.end() of the match that starts at offset b.
MatchEnd(w, m, b) == b + Len(m) * CopiesAt(w, m, b)

\* ------------------------------------------------- STRLine.iter_exact_str
\* s = genome[self.seqid][self.start - 1: self.end]
Window(g, r) == PySlice(g[r.seqid], r.start - 1, r.end)

\* self.start = start + m.start()
NewStart(start0, b) == start0 + b

\* The end computed as an exclusive bound.
NewEnd_exclusive(newstart, length) == newstart + length

\* self.end = self.start - 1 + length
NewEnd(newstart, length) == newstart - 1 + length

\* self.copynum = length / len(self.motif): Python 2 integer division.
NewCopynum(length, motif) == PyInt(length \div Len(motif))

\* The score without its factor.
NewScore_single(length) == length

\* self.score = 2 * length
NewScore(length) == 2 * length

\* self.G counted with the letter of the line above it.
BaseCount_copied(subseq, base) == Count(subseq, IF base = "G" THEN "C" ELSE base)

\* self.A .. self.T = subseq.count('A') .. subseq.count('T')
BaseCount(subseq, base) == Count(subseq, base)

\* The two assert statements of the loop body hold.
AssertsHold(subseq, motif) ==
    /\ Len(subseq) % Len(motif) = 0
    /\ StartsWithAt(subseq, motif, 0)

\* The record after the assignments of lines 65-79 for the match [b, e) of
\* the window w (entropy not yet recomputed).
Remeasure(r, start0, w, b, e) ==
    LET length == e - b
        subseq == SubSeq(w, b + 1, e)
        ns     == NewStart(start0, b)
    IN  [r EXCEPT !.start = ns,
                  !.end = NewEnd(ns, length),
                  !.copynum = NewCopynum(length, r.motif),
                  !.pctmatch = 100,
                  !.pctindel = 0,
                  !.score = NewScore(length),
                  !.A = BaseCount(subseq, "A"),
                  !.C = BaseCount(subseq, "C"),
                  !.G = BaseCount(subseq, "G"),
                  !.T = BaseCount(subseq, "T")]

\* self.entropy = self.calc_entropy()
WithEntropy(r) == [r EXCEPT !.entropy = calc_entropy(r)]

\* A token that is no number at all.
NonNumeric(tok) == ~IsFloatLiteral(tok)

NumericFields == IntFields \cup FloatFields

\* A line with fewer than 15 fields or a non-numeric numeric field.
BadLine(line) ==
    LET args == Split(line)
    IN  \/ Len(args) < 15
        \/ \E i \in NumericFields : i <= Len(args) /\ NonNumeric(args[i])

\* ------------------------------------------------------------------- state
VARIABLES
    genome,     \* pyfasta.Fasta(fastafile): seqid -> sequence text (read-only)
    fp,         \* the lines of the TRF bed file not yet read
    pc,         \* "loop", "scan", "body", "done" or "error"
    exc,        \* the uncaught exception that ended the run, "" when none
    heap,       \* the STRLine objects created so far, by reference 1..Len(heap)
    s,          \* reference of the current row's STRLine, 0 before the first
    frame,      \* locals of the suspended generator: start, s (win), scan offset
    newbed,     \* the lines printed to the .new bed file
    retained,   \* lobstrindex's counter `retained`
    total,      \* lobstrindex's counter `total`
    mm,         \* the MakeManager holding the index-build commands was written
    row,        \* history: the last line read, as <<line>>
    bad,        \* history: the last line read had too few or non-numeric fields
    raw,        \* history: the current row's record as parsed, as <<record>>
    produced,   \* history: a copy of every yielded record, taken at the yield
    yielded,    \* history: the reference the generator returned at each yield
    rt_pc,      \* round trip: "idle", "line", "parsed", "text" or "done"
    rt_line,    \* round trip: the input line
    rt_rec,     \* round trip: <<STRLine(line)>>
    rt_text,    \* round trip: str(STRLine(line))
    rt_rec2     \* round trip: <<STRLine(str(STRLine(line)))>>

dvars == <<genome, fp, pc, exc, heap, s, frame, newbed, retained, total, mm,
           row, bad, raw, produced, yielded>>

rvars == <<rt_pc, rt_line, rt_rec, rt_text, rt_rec2>>

vars == <<genome, fp, pc, exc, heap, s, frame, newbed, retained, total, mm,
          row, bad, raw, produced, yielded, rt_pc, rt_line, rt_rec, rt_text, rt_rec2>>

NoFrame == [start |-> 0, win |-> <<>>, pos |-> 0]

\* ----------------------------------------------------------- lobstrindex
\* for row in fp: s = STRLine(row); total += 1; the for statement over
\* s.iter_exact_str(genome) enters the generator, which compiles the pattern,
\* saves start and takes the window.
ReadRow ==
    /\ pc = "loop"
    /\ fp # <<>>
    /\ ParseError(Head(fp)) = ""
    /\ LET r == Parse(Head(fp))
       IN  /\ heap' = Append(heap, r)
           /\ s' = Len(heap) + 1
           /\ frame' = [start |-> r.start, win |-> Window(genome, r), pos |-> 0]
           /\ raw' = <<r>>
    /\ total' = total + 1
    /\ row' = <<Head(fp)>>
    /\ bad' = BadLine(Head(fp))
    /\ fp' = Tail(fp)
    /\ pc' = "scan"
    /\ UNCHANGED <<genome, exc, newbed, retained, mm, produced, yielded>>
    /\ UNCHANGED rvars

\* The bad line is skipped and the loop goes on.
ReadRowSkip ==
    /\ pc = "loop"
    /\ fp # <<>>
    /\ ParseError(Head(fp)) # ""
    /\ row' = <<Head(fp)>>
    /\ bad' = BadLine(Head(fp))
    /\ raw' = <<>>
    /\ fp' = Tail(fp)
    /\ UNCHANGED <<genome, pc, exc, heap, s, frame, newbed, retained, total, mm,
                   produced, yielded>>
    /\ UNCHANGED rvars

\* STRLine(row) raises: nothing catches it, the run ends there.
ReadRowRaise ==
    /\ pc = "loop"
    /\ fp # <<>>
    /\ ParseError(Head(fp)) # ""
    /\ exc' = ParseError(Head(fp))
    /\ row' = <<Head(fp)>>
    /\ bad' = BadLine(Head(fp))
    /\ raw' = <<>>
    /\ fp' = Tail(fp)
    /\ pc' = "error"
    /\ UNCHANGED <<genome, heap, s, frame, newbed, retained, total, mm,
                   produced, yielded>>
    /\ UNCHANGED rvars

\* The generator is resumed and re.finditer has a next match: the record is
\* updated in place and `yield self` hands out the same object again.
ScanYield ==
    /\ pc = "scan"
    /\ LET b == FindFrom(frame.win, heap[s].motif, frame.pos)
       IN  /\ b # -1
           /\ LET e  == MatchEnd(frame.win, heap[s].motif, b)
                  r1 == Remeasure(heap[s], frame.start, frame.win, b, e)
              IN  /\ AssertsHold(SubSeq(frame.win, b + 1, e), heap[s].motif)
                  /\ ~EntropyRaises(r1)
                  /\ heap' = [heap EXCEPT ![s] = WithEntropy(r1)]
                  /\ produced' = Append(produced, [row |-> Len(heap),
                                                   rec |-> WithEntropy(r1)])
                  /\ frame' = [frame EXCEPT !.pos = e]
    /\ yielded' = Append(yielded, s)
    /\ pc' = "body"
    /\ UNCHANGED <<genome, fp, exc, s, newbed, retained, total, mm, row, bad, raw>>
    /\ UNCHANGED rvars

\* The generator is resumed and an assert or calc_entropy raises: the fields
\* assigned before the failing line keep their new values, the run ends.
ScanRaise ==
    /\ pc = "scan"
    /\ LET b == FindFrom(frame.win, heap[s].motif, frame.pos)
       IN  /\ b # -1
           /\ LET e  == MatchEnd(frame.win, heap[s].motif, b)
                  r1 == Remeasure(heap[s], frame.start, frame.win, b, e)
                  ok == AssertsHold(SubSeq(frame.win, b + 1, e), heap[s].motif)
              IN  /\ ~ok \/ EntropyRaises(r1)
                  /\ heap' = [heap EXCEPT ![s] =
                                IF ok THEN r1 ELSE [@ EXCEPT !.start = r1.start]]
                  /\ exc' = IF ok THEN "ZeroDivisionError" ELSE "AssertionError"
    /\ pc' = "error"
    /\ UNCHANGED <<genome, fp, s, frame, newbed, retained, total, mm, row, bad, raw,
                   produced, yielded>>
    /\ UNCHANGED rvars

\* The generator is resumed and re.finditer is exhausted: the inner for ends.
ScanStop ==
    /\ pc = "scan"
    /\ FindFrom(frame.win, heap[s].motif, frame.pos) = -1
    /\ frame' = NoFrame
    /\ pc' = "loop"
    /\ UNCHANGED <<genome, fp, exc, heap, s, newbed, retained, total, mm, row, bad,
                   raw, produced, yielded>>
    /\ UNCHANGED rvars

\* The yielded record of the last yield.
ns == heap[yielded[Len(yielded)]]

\* if not ns.is_valid(): continue
Skip ==
    /\ pc = "body"
    /\ ~IsValidDefault(ns)
    /\ pc' = "scan"
    /\ UNCHANGED <<genome, fp, exc, heap, s, frame, newbed, retained, total, mm,
                   row, bad, raw, produced, yielded>>
    /\ UNCHANGED rvars

\* print >> newbed, ns; retained += 1
Emit ==
    /\ pc = "body"
    /\ IsValidDefault(ns)
    /\ newbed' = Append(newbed, STRStr(ns))
    /\ retained' = retained + 1
    /\ pc' = "scan"
    /\ UNCHANGED <<genome, fp, exc, heap, s, frame, total, mm, row, bad, raw,
                   produced, yielded>>
    /\ UNCHANGED rvars

\* End of the file: newbed.close(), the Retained log line, and the Makefile
\* with the lobstr_index.py and GetSTRInfo.py commands is written.
Finish ==
    /\ pc = "loop"
    /\ fp = <<>>
    /\ mm' = TRUE
    /\ pc' = "done"
    /\ UNCHANGED <<genome, fp, exc, heap, s, frame, newbed, retained, total,
                   row, bad, raw, produced, yielded>>
    /\ UNCHANGED rvars

Next ==
    \/ ReadRow
    \/ ReadRowRaise
    \/ ScanYield
    \/ ScanRaise
    \/ ScanStop
    \/ Skip
    \/ Emit
    \/ Finish

\* ------------------------------------------- parse(serialize(parse(line)))
RTParse ==
    /\ rt_pc = "line"
    /\ ParseError(rt_line) = ""
    /\ rt_rec' = <<Parse(rt_line)>>
    /\ rt_pc' = "parsed"
    /\ UNCHANGED <<rt_line, rt_text, rt_rec2>>
    /\ UNCHANGED dvars

RTSerialize ==
    /\ rt_pc = "parsed"
    /\ rt_text' = STRStr(rt_rec[1])
    /\ rt_pc' = "text"
    /\ UNCHANGED <<rt_line, rt_rec, rt_rec2>>
    /\ UNCHANGED dvars

RTReparse ==
    /\ rt_pc = "text"
    /\ rt_rec2' = IF ParseError(rt_text) = "" THEN <<Parse(rt_text)>> ELSE <<>>
    /\ rt_pc' = "done"
    /\ UNCHANGED <<rt_line, rt_rec, rt_text>>
    /\ UNCHANGED dvars

NextRT ==
    \/ RTParse
    \/ RTSerialize
    \/ RTReparse

\* ------------------------------------------------------------------ inputs
Chr1 == <<"c", "h", "r", "1">>

\* A line of TRF output in bed form: the 15 columns, tab separated.
MkLine(start, end, period, copynum, score, entropy, motif) ==
    Join(<<Chr1, start, end, period, copynum, period, <<"9", "0">>, <<"5">>,
           score, <<"1">>, <<"2">>, <<"3">>, <<"4">>, entropy, motif>>, Tab)

\* The usual line: numeric columns from numbers.
Line(start, end, period, motif) ==
    MkLine(NatStr(start), NatStr(end), NatStr(period), <<"5", ".", "3">>,
           <<"6", "0">>, <<"1", ".", "9", "0">>, motif)

ACG == <<"A", "C", "G">>

\* A chromosome with four exact ACG runs of 15, 150, 153 and 12 bases, each
\* separated from the next by one other base: positions 2-16, 18-167,
\* 169-321 and 323-334.
LongSeq ==
    <<"T">> \o Rep(ACG, 5) \o <<"T">> \o Rep(ACG, 50) \o <<"N">>
    \o Rep(ACG, 51) \o <<"T">> \o Rep(ACG, 4)

\* The lines a bed file over LongSeq is made of.
LongLines ==
    {Line(2, 16, p, ACG) : p \in {1, 2, 6, 7}}
    \cup {Line(2, 167, 3, ACG), Line(18, 321, 3, ACG), Line(1, 400, 3, ACG),
          Line(1, 334, 1, <<"T">>)}
    \cup {\* raw score below minscore
          MkLine(<<"2">>, <<"1", "6">>, <<"3">>, <<"5">>, <<"1", "0">>,
                 <<"2">>, ACG),
          \* 14 columns
          SubSeq(Line(2, 16, 3, ACG), 1, Len(Line(2, 16, 3, ACG)) - 4),
          \* 16 columns
          Line(2, 16, 3, ACG) \o <<" ", "x">>,
          \* a start that is no number
          MkLine(<<"x">>, <<"1", "6">>, <<"3">>, <<"5">>, <<"6", "0">>,
                 <<"2">>, ACG),
          \* an end that is a number but no integer
          MkLine(<<"2">>, <<"1", ".", "5">>, <<"3">>, <<"5">>, <<"6", "0">>,
                 <<"2">>, ACG),
          \* an entropy that is no number
          MkLine(<<"2">>, <<"1", "6">>, <<"3">>, <<"5">>, <<"6", "0">>,
                 <<"x">>, ACG)}

\* The files of at most MaxRows lines over a set of lines.
Files(lines) == UNION {[1..n -> lines] : n \in 0..MaxRows}

\* Motifs of the short chromosomes and of the records scanned over them.
Motifs ==
    {<<"A">>, <<"A", "C">>, <<"A", "A">>, ACG, <<"G", "T">>, <<"N">>,
     <<"A", "N">>}

\* The base, if any, between the two runs of a short chromosome.
Breaks == {<<>>, <<"T">>, <<"N">>, <<"A">>, <<"C">>}

\* pad + motif * a + x + motif * b
ShortSeq(pad, m, a, x, b) == pad \o Rep(m, a) \o x \o Rep(m, b)

\* The records scanned over a short chromosome built from the motif m: a few
\* windows that begin at or before its first bases and end in it, at its end
\* or beyond its end, with the motif m or a motif of one or two A.
ShortLines(seq, m) ==
    {Line(st, en, Len(mo), mo) :
        st \in {0, 1, 2},
        en \in {Len(seq) - 1, Len(seq), Len(seq) + 2},
        mo \in {m, <<"A">>, <<"A", "A">>}}

\* A short chromosome and a bed file of one line over it.
ShortCases ==
    UNION {{<<ShortSeq(pad, m, a, x, b), l>> :
                l \in ShortLines(ShortSeq(pad, m, a, x, b), m)} :
           pad \in {<<>>, <<"T">>}, m \in Motifs, a \in {2, 3},
           x \in Breaks, b \in {0, 2, 3}}

\* The driver before its loop: retained = total = 0, nothing read.
InitDriver(g, file) ==
    /\ genome = (Chr1 :> g)
    /\ fp = file
    /\ pc = "loop"
    /\ exc = ""
    /\ heap = <<>>
    /\ s = 0
    /\ frame = NoFrame
    /\ newbed = <<>>
    /\ retained = 0
    /\ total = 0
    /\ mm = FALSE
    /\ row = <<>>
    /\ bad = FALSE
    /\ raw = <<>>
    /\ produced = <<>>
    /\ yielded = <<>>

RTIdle ==
    /\ rt_pc = "idle"
    /\ rt_line = <<>>
    /\ rt_rec = <<>>
    /\ rt_text = <<>>
    /\ rt_rec2 = <<>>

Init ==
    /\ \/ \E file \in Files(LongLines) : InitDriver(LongSeq, file)
       \/ \E c \in ShortCases : InitDriver(c[1], <<c[2]>>)
    /\ RTIdle

Spec == Init /\ [][Next]_vars

\* ---------------------------------------------------- round-trip inputs
\* Copy numbers with up to MaxFracDigits equal fractional digits.
CopynumTokens ==
    {ip \o <<".">> \o Rep(<<d>>, n) :
        ip \in {<<"2">>, <<"1", "0">>}, d \in {"0", "3", "7"},
        n \in 0..MaxFracDigits}
    \cup {<<"1", "0">>}

EntropyTokens ==
    {<<"1", ".", "9", "0">>, <<"1", ".", "9", "9", "6">>, <<"0", ".", "5">>,
     <<"2">>, <<"1", ".", "2", "3", "4">>}

StartTokens == {<<"1", "0", "0">>, <<"0", "0", "7">>, <<"+", "5">>}

RTLines ==
    {MkLine(st, <<"1", "3", "0">>, <<"3">>, cn, <<"6", "0">>, en, ACG) :
        st \in StartTokens, cn \in CopynumTokens, en \in EntropyTokens}

InitRT ==
    /\ InitDriver(LongSeq, <<>>)
    /\ rt_pc = "line"
    /\ rt_line \in RTLines
    /\ rt_rec = <<>>
    /\ rt_text = <<>>
    /\ rt_rec2 = <<>>

SpecRT == InitRT /\ [][NextRT]_vars

\* ------------------------------------------------------------ properties
\* The refined records of the current row, as copied at their yields.
Subs ==
    LET OfRow(q) == q.row = Len(heap)
        sel == SelectSeq(produced, OfRow)
    IN  [i \in 1..Len(sel) |-> sel[i].rec]

\* The scan of the current row has ended (exhausted, or by an exception).
RowEnded == raw # <<>> /\ pc \in {"loop", "done", "error"}

RecLen(r) == r.end - r.start + 1

BaseSum(r) == r.A + r.C + r.G + r.T

\* [r.start, r.end] lies inside the sequence r names.
InRange(r) == 1 <= r.start /\ r.start <= r.end /\ r.end <= Len(genome[r.seqid])

\* The bases of the 1-based inclusive interval [r.start, r.end].
Region(r) == SubSeq(genome[r.seqid], r.start, r.end)

\* The window of r is k >= 2 copies of its motif and nothing else.
ExactRun(r) ==
    /\ InRange(r)
    /\ RecLen(r) % Len(r.motif) = 0
    /\ RecLen(r) \div Len(r.motif) >= 2
    /\ Region(r) = Rep(r.motif, RecLen(r) \div Len(r.motif))

HasBase(m) == \E i \in 1..Len(m) : m[i] \in {"A", "C", "G", "T"}

OnlyBases(m) == \A i \in 1..Len(m) : m[i] \in {"A", "C", "G", "T"}

\* One refined record that spans the window of r, with the statistics of an
\* exact run.
SpansWindow(r) ==
    /\ Len(Subs) = 1
    /\ Subs[1].start = r.start
    /\ Subs[1].end = r.end
    /\ NumEqInt(Subs[1].copynum, RecLen(r) \div Len(r.motif))
    /\ Subs[1].pctmatch = 100
    /\ Subs[1].pctindel = 0
    /\ Subs[1].score = 2 * (Subs[1].end - Subs[1].start + 1)

\* C1 as claimed: a window of exactly k >= 2 copies of the motif yields exactly
\* one refined record, which spans the window, has copy number k, 100 percent
\* match, no indel and score twice its length.
C1_Claim == (RowEnded /\ ExactRun(raw[1])) => SpansWindow(raw[1])

\* C1 as amended: the same, for a motif with at least one of A, C, G, T.
C1_ExactRun ==
    (RowEnded /\ ExactRun(raw[1]) /\ HasBase(raw[1].motif)) => SpansWindow(raw[1])

C1_Witness ==
    /\ RowEnded
    /\ pc = "loop"
    /\ ExactRun(raw[1])
    /\ HasBase(raw[1].motif)
    /\ raw[1].start > 1
    /\ RecLen(raw[1]) \div Len(raw[1].motif) >= 3
    /\ Len(Subs) = 1

\* The ways to read w as motif^a + x + motif^b with a, b >= 2 and x one base
\* that breaks the repeat (the motif is not a run of x itself), as <<a, b>>.
TwoRuns(w, m) ==
    IF Len(w) = 0 \/ (Len(w) - 1) % Len(m) # 0 THEN {}
    ELSE LET n == (Len(w) - 1) \div Len(m)
         IN  {ab \in {<<a, n - a>> : a \in 2..(n - 2)} :
                 LET x == <<w[ab[1] * Len(m) + 1]>>
                 IN  /\ w = Rep(m, ab[1]) \o x \o Rep(m, ab[2])
                     /\ m # Rep(x, Len(m))}

\* Two refined records, in order, disjoint, inside the window of r, with copy
\* numbers a and b.
TwoRecords(r, a, b) ==
    /\ Len(Subs) = 2
    /\ Subs[1].start < Subs[2].start
    /\ Subs[1].end < Subs[2].start
    /\ r.start <= Subs[1].start
    /\ Subs[1].start <= Subs[1].end
    /\ Subs[2].start <= Subs[2].end
    /\ Subs[2].end <= r.end
    /\ NumEqInt(Subs[1].copynum, a)
    /\ NumEqInt(Subs[2].copynum, b)

\* C5 as claimed: a window motif^a + x + motif^b (a, b >= 2, x one base that
\* breaks the repeat) yields exactly two refined records, in increasing start
\* order, not overlapping, inside the window, with copy numbers a and b.
C5_Claim ==
    (RowEnded /\ InRange(raw[1])) =>
        \A ab \in TwoRuns(Region(raw[1]), raw[1].motif) :
            TwoRecords(raw[1], ab[1], ab[2])

\* C5 as amended: the same, for a motif with at least one of A, C, G, T.
C5_TwoRuns ==
    (RowEnded /\ InRange(raw[1]) /\ HasBase(raw[1].motif)) =>
        \A ab \in TwoRuns(Region(raw[1]), raw[1].motif) :
            TwoRecords(raw[1], ab[1], ab[2])

C5_Witness ==
    /\ RowEnded
    /\ pc = "loop"
    /\ InRange(raw[1])
    /\ raw[1].start > 1
    /\ HasBase(raw[1].motif)
    /\ \E ab \in TwoRuns(Region(raw[1]), raw[1].motif) : ab[1] # ab[2]
    /\ Len(Subs) = 2

\* C9 as claimed: every refined record has A + C + G + T = end - start + 1,
\* and calc_entropy never divides by a zero total.
C9_Claim ==
    /\ \A i \in 1..Len(produced) :
          BaseSum(produced[i].rec) = RecLen(produced[i].rec)
    /\ exc # "ZeroDivisionError"

\* C9 as amended: the same, for motifs made of A, C, G and T only.
C9_BaseCounts ==
    /\ \A i \in 1..Len(produced) :
          OnlyBases(produced[i].rec.motif) =>
              BaseSum(produced[i].rec) = RecLen(produced[i].rec)
    /\ exc = "ZeroDivisionError" => ~OnlyBases(heap[s].motif)

C9_Witness ==
    /\ pc = "body"
    /\ OnlyBases(ns.motif)
    /\ \E i \in 1..Len(frame.win) : frame.win[i] = "N"
    /\ Len(Subs) >= 2
    /\ ns.T > 0

\* The refined records the loop body has already decided on.
Decided ==
    IF pc = "body" THEN SubSeq(produced, 1, Len(produced) - 1) ELSE produced

\* The lines of the records of Decided at the indices i with ok[i], in order.
LinesOf(ok) ==
    LET ix == [i \in 1..Len(Decided) |-> [i |-> i, rec |-> Decided[i].rec]]
        Keep(q) == ok[q.i]
        sel == SelectSeq(ix, Keep)
    IN  [k \in 1..Len(sel) |-> STRStr(sel[k].rec)]

\* C2: once the driver has finished, total is the number of refined records
\* produced and retained the number of them that passed is_valid; retained
\* never exceeds total.
C2_Claim ==
    /\ retained <= total
    /\ pc = "done" =>
          /\ total = Len(produced)
          /\ retained = Cardinality({i \in 1..Len(produced) :
                                        IsValidDefault(produced[i].rec)})

\* C3: a yielded record never changes after its yield, the record the scan
\* was called on keeps its start, end, copy number, score, base counts and
\* entropy, and no yielded record is the input record or another yielded one.
C3_Claim ==
    /\ \A i \in 1..Len(yielded) : heap[yielded[i]] = produced[i].rec
    /\ raw # <<>> =>
          /\ heap[s].start = raw[1].start
          /\ heap[s].end = raw[1].end
          /\ heap[s].copynum = raw[1].copynum
          /\ heap[s].score = raw[1].score
          /\ BaseSum(heap[s]) = BaseSum(raw[1])
          /\ heap[s].entropy = raw[1].entropy
    /\ \A i \in 1..Len(yielded) :
          /\ yielded[i] # s
          /\ \A j \in 1..Len(yielded) : i # j => yielded[i] # yielded[j]

\* r.start - 1 or r.end is no offset of the sequence r names.
OutOfRange(r) ==
    \/ r.start - 1 < 0
    \/ r.start - 1 >= Len(genome[r.seqid])
    \/ r.end > Len(genome[r.seqid])

\* C4: a record whose start - 1 or end lies outside its sequence makes the
\* scan fail: it yields nothing and does not run to its end.
C4_Claim ==
    (raw # <<>> /\ OutOfRange(raw[1])) =>
        /\ Subs = <<>>
        /\ pc \in {"scan", "error"}

\* C6: parse(serialize(parse(line))) equals parse(line) in every field but
\* entropy, which agrees to two decimals; the text has the 15 fields.
C6_Claim ==
    rt_pc = "done" =>
        /\ Len(Split(rt_text)) = 15
        /\ rt_rec2 # <<>>
        /\ [rt_rec2[1] EXCEPT !.entropy = rt_rec[1].entropy] = rt_rec[1]
        /\ Fmt2f(rt_rec2[1].entropy) = Fmt2f(rt_rec[1].entropy)

\* is_valid with the default thresholds, written out.
DefaultValid(r) ==
    /\ 2 <= r.period
    /\ r.period <= 6
    /\ r.end - r.start + 1 <= 150
    /\ r.score >= 30

\* C7: the output is the lines of exactly the refined records that are valid
\* under the default thresholds as they were when produced, in the order of
\* the input rows and, within a row, of increasing start.
C7_Output ==
    /\ newbed = LinesOf([i \in 1..Len(Decided) |-> DefaultValid(Decided[i].rec)])
    /\ \A i, j \in 1..Len(produced) :
          i < j =>
             /\ produced[i].row <= produced[j].row
             /\ produced[i].row = produced[j].row =>
                   produced[i].rec.start < produced[j].rec.start

C7_Witness ==
    /\ pc = "done"
    /\ Len(newbed) >= 3
    /\ \E i, j \in 1..Len(produced) :
          /\ produced[i].row < produced[j].row
          /\ DefaultValid(produced[i].rec)
          /\ DefaultValid(produced[j].rec)
    /\ \E i \in 1..Len(produced) : RecLen(produced[i].rec) = 150
    /\ \E i \in 1..Len(produced) : ~DefaultValid(produced[i].rec)

\* C8 as claimed, the part about the line: a row with a field count other
\* than 15, or with a non-numeric numeric field, ends the run with an error.
C8_Claim ==
    LET args == IF row = <<>> THEN <<>> ELSE Split(row[1])
    IN  (row # <<>> /\ \/ Len(args) # 15
                       \/ \E i \in NumericFields :
                             i <= Len(args) /\ NonNumeric(args[i]))
            => pc = "error"

\* C8 as amended: a row with fewer than 15 fields, or with a non-numeric
\* numeric field, ends the run with an error; no record of that row exists,
\* the index-build step is not reached, and after the error nothing is
\* emitted, read or built.
C8_Abort ==
    [][/\ bad' => (pc' = "error" /\ exc' \in {"IndexError", "ValueError"}
                   /\ raw' = <<>> /\ ~mm' /\ newbed' = newbed)
       /\ pc = "error" => (pc' = "error" /\ newbed' = newbed /\ fp' = fp
                           /\ mm' = mm)]_vars

C8_Witness ==
    /\ bad
    /\ pc = "error"
    /\ Len(Split(row[1])) = 15
    /\ fp # <<>>

\* The rule of C10 for a refined record.
EmitRule(r) ==
    /\ 2 <= r.period
    /\ r.period <= 6
    /\ 15 <= r.end - r.start + 1
    /\ r.end - r.start + 1 <= 150

\* C10: every refined record has score 2 * (end - start + 1), and the output
\* is the lines of exactly the refined records with 2 <= period <= 6 and
\* 15 <= end - start + 1 <= 150.
C10_Emitted ==
    /\ \A i \in 1..Len(produced) :
          produced[i].rec.score = 2 * RecLen(produced[i].rec)
    /\ newbed = LinesOf([i \in 1..Len(Decided) |-> EmitRule(Decided[i].rec)])

C10_Witness ==
    /\ pc = "done"
    /\ raw # <<>>
    /\ raw[1].score >= 30
    /\ \E i \in 1..Len(Subs) : RecLen(Subs[i]) < 15 /\ Subs[i].period = 3
    /\ \E i \in 1..Len(Subs) : RecLen(Subs[i]) = 15
    /\ Len(newbed) = 2

====
